---------------------------- MODULE Spec2Model ----------------------------
(***************************************************************************)
(* Model of src/monitor_cloud.py: BundangCloudMonitor, a review-count      *)
(* monitor that is invoked once per process by an external scheduler.      *)
(*                                                                         *)
(* One invocation = main(): construct the monitor (read the environment),  *)
(* run_monitoring() (validate, get_review_count, load the history, decide, *)
(* send, save) and exit.  The only durable state is review_history.json.   *)
(*                                                                         *)
(* Abstractions (all of them environment inputs, never program logic):     *)
(*  - an HTTP response is either an exception raised inside the per-source *)
(*    try block (requests.get, raise_for_status, or anything else that     *)
(*    raises while the body is processed) or the list of strings           *)
(*    that the eight re.findall calls return on its body, in order; every  *)
(*    such string is a run of decimal digits (each pattern captures \d+ or *)
(*    \d{3}) and is modelled as a sequence of digits;                      *)
(*  - the timestamps of a record are one logical instant, clock;           *)
(*  - an e-mail send and a file write succeed or fail nondeterministically;*)
(*  - json.dump / json.load of a list of flat records of int, null, bool   *)
(*    and str is exact, so the file is modelled by the JSON value it holds.*)
(***************************************************************************)
EXTENDS Integers, Sequences, FiniteSets, TLC

(***************************************************************************)
(* Program constants                                                       *)
(***************************************************************************)
\* len(target_urls): the seven configured sources, in priority order
NumSources == 7
\* valid_numbers = [n for n in found_numbers if 600 <= n <= 700]
RangeLo == 600
RangeHi == 700
\* return 663
FallbackCount == 663
\* history = history[-200:]
HistoryLimit == 200
\* Python's None.  Every count the program handles is a natural number
\* (int() of a run of digits), so -1 is outside the domain of counts.
None == -1

(***************************************************************************)
(* Bounds of the model                                                     *)
(***************************************************************************)
\* invocations of main() explored after the initial state
MaxRuns == 2
\* MIN_CHANGE_THRESHOLD ranges over 0..MaxThreshold
MaxThreshold == 2
\* regex matches per response body in the extractor's specification
MaxMatches == 2
\* counts 0..MaxCount as arguments of should_send_notification on its own
MaxCount == 3

VARIABLES
    \* ---- durable state
    history_file,           \* review_history.json: [kind, data]
    \* ---- self.* fields set by __init__ from the environment
    test_mode, notify_on_startup, notify_on_no_change, quiet_mode,
    min_change_threshold,
    recipient_email, gmail_address, gmail_password,  \* TRUE iff non-empty
    \* ---- control
    pc,                     \* position of the process
    runs,                   \* invocations of main() so far
    clock,                  \* logical time, one tick per invocation
    \* ---- get_review_count
    attempt,                \* loop index over target_urls (1-based)
    fetches,                \* fetches[i]: requests.get calls on source i
    response,               \* the response of the latest fetch
    grc_raised,             \* get_review_count raised to its caller
    \* ---- run_monitoring locals
    current_count, history, last_count, should_notify, notification_reason,
    new_record,
    send_calls,             \* calls of send_email_notification in this run
    success,                \* run_monitoring's return value
    exit_code,              \* exit status of the last finished process
    time_lookups,           \* calls of get_naver_server_time in this process
    \* ---- observers (not program state)
    first_plausible,        \* first fetched source with an in-range match
    all_errors,             \* every fetch of this call raised so far
    fell_back,              \* get_review_count returned a `return 663`
    loaded_from,            \* kind of the file when this run loaded it
    send_result,            \* what send_email_notification returned
    saved,                  \* how the save of this run ended
    epoch                   \* completed runs since the history was empty,
                            \* and observations ever saved (total)

policy_vars == <<test_mode, notify_on_startup, notify_on_no_change, quiet_mode,
                 min_change_threshold, recipient_email, gmail_address,
                 gmail_password>>
extract_vars == <<attempt, fetches, response, grc_raised, first_plausible,
                  all_errors>>
decide_vars == <<last_count, should_notify, notification_reason, new_record>>
observer_vars == <<fell_back, loaded_from, send_result, saved>>
vars == <<history_file, policy_vars, pc, runs, clock, extract_vars,
          current_count, history, decide_vars, send_calls, success,
          exit_code, time_lookups, observer_vars, epoch>>


(***************************************************************************)
(* Values                                                                  *)
(***************************************************************************)
\* a record before it is built
NoRecord ==
    [timestamp |-> 0, review_count |-> None, previous_count |-> None,
     change |-> 0, notification_reason |-> "", notification_sent |-> FALSE]

\* the in-memory history before it is loaded: history = []
EmptyList == [kind |-> "list", data |-> <<>>]

\* no response fetched yet
NoResponse == [status |-> "none", matches |-> <<>>]

\* no source with an in-range match fetched yet
NoSource == [source |-> 0, matches |-> <<>>]

(***************************************************************************)
(* get_review_count: the body of the loop over target_urls                 *)
(***************************************************************************)
\* str.isdigit() on a regex match
IsDigit(m) == Len(m) > 0 /\ \A i \in 1..Len(m) : m[i] \in 0..9

\* int(m) on a run of decimal digits (leading zeros allowed)
RECURSIVE DigitsToInt(_)
DigitsToInt(m) ==
    IF Len(m) = 0 THEN 0
    ELSE 10 * DigitsToInt(SubSeq(m, 1, Len(m) - 1)) + m[Len(m)]

\* found_numbers: [int(m) for m in matches if m.isdigit()], over all patterns
FoundNumbers(matches) ==
    LET digits == SelectSeq(matches, IsDigit)
    IN  [i \in 1..Len(digits) |-> DigitsToInt(digits[i])]

\* faulty variant: the upper end of the range is not checked
InValidRange_NoUpper(n) == RangeLo <= n

\* 600 <= n <= 700
\* no range filter at all
InValidRange_Any(n) == n = n

InValidRange(n) == RangeLo <= n /\ n <= RangeHi

\* valid_numbers = [n for n in found_numbers if 600 <= n <= 700]
ValidNumbers(found_numbers) == SelectSeq(found_numbers, InValidRange)

\* faulty variant: the first valid number instead of the largest
Max_First(numbers) == numbers[1]

\* max(valid_numbers)
Max(numbers) ==
    CHOOSE x \in {numbers[i] : i \in 1..Len(numbers)} :
        \A j \in 1..Len(numbers) : numbers[j] <= x

\* faulty variant: the per-source handler is missing, the exception leaves
\* the loop
InnerExcept_Abort == [kind |-> "raise", value |-> None]

\* except Exception as e: ... continue   (the per-source handler)
InnerExcept == [kind |-> "continue", value |-> None]

\* One iteration of the loop on the response of requests.get:
\* "return" a count, "continue" with the next source, or "raise" out of the loop.
LoopBody(resp) ==
    IF resp.status = "error"
    THEN InnerExcept
    ELSE LET found_numbers == FoundNumbers(resp.matches)
             valid_numbers == ValidNumbers(found_numbers)
         IN  IF found_numbers # <<>> /\ valid_numbers # <<>>
             THEN [kind |-> "return", value |-> Max(valid_numbers)]
             ELSE [kind |-> "continue", value |-> None]

\* enumerate(target_urls, 1): the source tried after source `a`
NextAttempt(a) == a + 1

\* self.logger.warning(...); return 663   (after the loop)
\* the lower end of the valid range instead of 663
AllFailedValue_RangeLo == RangeLo

AllFailedValue == FallbackCount

\* faulty variant: the outer handler lets the exception through
OuterExcept_Reraise == [raised |-> TRUE, value |-> None]

\* except Exception as e: ... return 663   (the handler around the whole body)
OuterExcept == [raised |-> FALSE, value |-> FallbackCount]

(***************************************************************************)
(* should_send_notification(last_count, current_count)                     *)
(***************************************************************************)
Abs(x) == IF x < 0 THEN -x ELSE x

\* Faulty variants of should_send_notification, used to show that the
\* properties of the decision rest on it.
\* (a) the first-run case is decided before test mode
ssn_StartupBeforeTest(last, current) ==
    IF last = None
    THEN IF notify_on_startup
         THEN [notify |-> TRUE, reason |-> "start"]
         ELSE [notify |-> FALSE, reason |-> "startup_disabled"]
    ELSE IF test_mode
    THEN [notify |-> TRUE, reason |-> "test"]
    ELSE IF current = last
    THEN IF notify_on_no_change /\ ~quiet_mode
         THEN [notify |-> TRUE, reason |-> "no_change"]
         ELSE [notify |-> FALSE, reason |-> "no_change_quiet"]
    ELSE IF Abs(current - last) >= min_change_threshold
    THEN [notify |-> TRUE, reason |-> "significant_change"]
    ELSE [notify |-> FALSE, reason |-> "below_threshold"]

\* (b) quiet mode also silences the startup notification
ssn_QuietStartup(last, current) ==
    IF test_mode
    THEN [notify |-> TRUE, reason |-> "test"]
    ELSE IF last = None
    THEN IF notify_on_startup /\ ~quiet_mode
         THEN [notify |-> TRUE, reason |-> "start"]
         ELSE [notify |-> FALSE, reason |-> "startup_disabled"]
    ELSE IF current = last
    THEN IF notify_on_no_change /\ ~quiet_mode
         THEN [notify |-> TRUE, reason |-> "no_change"]
         ELSE [notify |-> FALSE, reason |-> "no_change_quiet"]
    ELSE IF Abs(current - last) >= min_change_threshold
    THEN [notify |-> TRUE, reason |-> "significant_change"]
    ELSE [notify |-> FALSE, reason |-> "below_threshold"]

\* (c) the signed difference is compared with the threshold (abs forgotten)
ssn_SignedChange(last, current) ==
    IF test_mode
    THEN [notify |-> TRUE, reason |-> "test"]
    ELSE IF last = None
    THEN IF notify_on_startup
         THEN [notify |-> TRUE, reason |-> "start"]
         ELSE [notify |-> FALSE, reason |-> "startup_disabled"]
    ELSE IF current = last
    THEN IF notify_on_no_change /\ ~quiet_mode
         THEN [notify |-> TRUE, reason |-> "no_change"]
         ELSE [notify |-> FALSE, reason |-> "no_change_quiet"]
    ELSE IF current - last >= min_change_threshold
    THEN [notify |-> TRUE, reason |-> "significant_change"]
    ELSE [notify |-> FALSE, reason |-> "below_threshold"]

\* (d) the threshold is tested before the zero-change case
ssn_ThresholdFirst(last, current) ==
    IF test_mode
    THEN [notify |-> TRUE, reason |-> "test"]
    ELSE IF last = None
    THEN IF notify_on_startup
         THEN [notify |-> TRUE, reason |-> "start"]
         ELSE [notify |-> FALSE, reason |-> "startup_disabled"]
    ELSE IF Abs(current - last) >= min_change_threshold
    THEN [notify |-> TRUE, reason |-> "significant_change"]
    ELSE IF current = last
    THEN IF notify_on_no_change /\ ~quiet_mode
         THEN [notify |-> TRUE, reason |-> "no_change"]
         ELSE [notify |-> FALSE, reason |-> "no_change_quiet"]
    ELSE [notify |-> FALSE, reason |-> "below_threshold"]

\* (e) a "significant_change" whose send failed is announced again by the
\* run that finds it as the last stored record
ssn_RetryFailedSend(last, current) ==
    IF test_mode
    THEN [notify |-> TRUE, reason |-> "test"]
    ELSE IF last = None
    THEN IF notify_on_startup
         THEN [notify |-> TRUE, reason |-> "start"]
         ELSE [notify |-> FALSE, reason |-> "startup_disabled"]
    ELSE IF /\ history.kind = "list" /\ history.data # <<>>
            /\ history.data[Len(history.data)].notification_reason =
                  "significant_change"
            /\ ~history.data[Len(history.data)].notification_sent
    THEN [notify |-> TRUE, reason |-> "significant_change"]
    ELSE LET change_amount == Abs(current - last)
         IN  IF change_amount = 0
             THEN IF notify_on_no_change /\ ~quiet_mode
                  THEN [notify |-> TRUE, reason |-> "no_change"]
                  ELSE [notify |-> FALSE, reason |-> "no_change_quiet"]
             ELSE IF change_amount >= min_change_threshold
             THEN [notify |-> TRUE, reason |-> "significant_change"]
             ELSE [notify |-> FALSE, reason |-> "below_threshold"]

should_send_notification(last, current) ==
    IF test_mode
    THEN [notify |-> TRUE, reason |-> "test"]
    ELSE IF last = None
    THEN IF notify_on_startup
         THEN [notify |-> TRUE, reason |-> "start"]
         ELSE [notify |-> FALSE, reason |-> "startup_disabled"]
    ELSE LET change_amount == Abs(current - last)
         IN  IF change_amount = 0
             THEN IF notify_on_no_change /\ ~quiet_mode
                  THEN [notify |-> TRUE, reason |-> "no_change"]
                  ELSE [notify |-> FALSE, reason |-> "no_change_quiet"]
             ELSE IF change_amount >= min_change_threshold
             THEN [notify |-> TRUE, reason |-> "significant_change"]
             ELSE [notify |-> FALSE, reason |-> "below_threshold"]

(***************************************************************************)
(* run_monitoring: the record and the history                              *)
(***************************************************************************)
\* Python truthiness of an int-or-None: `if last_count`
Truthy(x) == x # None /\ x # 0

\* new_record = {...}
NewRecord(ts, current, last, reason) ==
    [timestamp |-> ts,
     review_count |-> current,
     previous_count |-> last,
     change |-> IF Truthy(last) THEN current - last ELSE 0,
     notification_reason |-> reason,
     notification_sent |-> FALSE]

\* history = json.load(f) guarded by os.path.exists and try/except
LoadedHistory(file) ==
    IF file.kind \in {"missing", "corrupt"}
    THEN EmptyList
    ELSE [kind |-> file.kind, data |-> file.data]

\* faulty variant: the first record is read instead of the last
LastCount_First(data) == data[1].review_count

\* the count the last record was compared with, not the one it observed
LastCount_PreviousCount(data) == data[Len(data)].previous_count

\* history[-1].get('review_count') of a non-empty list
LastCount(data) == data[Len(data)].review_count

\* faulty variant: history[:200], the oldest records are kept
Truncate_KeepOldest(data) ==
    IF Len(data) > HistoryLimit THEN SubSeq(data, 1, HistoryLimit) ELSE data

\* history = history[-200:]
Truncate(data) ==
    IF Len(data) > HistoryLimit
    THEN SubSeq(data, Len(data) - HistoryLimit + 1, Len(data))
    ELSE data

\* history.append(new_record); history = history[-200:]
AppendRecord(data, rec) == Truncate(Append(data, rec))


(***************************************************************************)
(* Inputs                                                                  *)
(***************************************************************************)
Thresholds == 0..MaxThreshold

\* an environment: a policy and the presence of each credential
Env(threshold, no_change, startup, quiet, test, recipient, address, password) ==
    [MIN_CHANGE_THRESHOLD |-> threshold, NOTIFY_NO_CHANGE |-> no_change,
     NOTIFY_STARTUP |-> startup, QUIET_MODE |-> quiet, TEST_MODE |-> test,
     RECIPIENT_EMAIL |-> recipient, GMAIL_ADDRESS |-> address,
     GMAIL_PASSWORD |-> password]

\* The environments of the whole-program specification.  A run depends on the
\* policy only through the decision, and on counts that differ by 0, by 1 or
\* by more than MaxThreshold the decision of any policy is that of one of
\* these: test mode, or startup on/off x unchanged loud/quiet x threshold 1/max.
\* validate_settings reads no policy field, so the environments with a
\* credential missing carry the default policy.
RunEnvs ==
    {Env(1, FALSE, FALSE, TRUE, FALSE, r, a, p) : r, a, p \in BOOLEAN}
    \cup
    {Env(1, FALSE, FALSE, TRUE, TRUE, TRUE, TRUE, TRUE)}
    \cup
    {Env(t, loud, s, ~loud, FALSE, TRUE, TRUE, TRUE) :
        t \in {1, MaxThreshold}, loud \in BOOLEAN, s \in BOOLEAN}

\* digit strings a pattern can capture: 599, 600, 664, 700, 701
MatchPool == {<<5, 9, 9>>, <<6, 0, 0>>, <<6, 6, 4>>, <<7, 0, 0>>, <<7, 0, 1>>}

RECURSIVE SeqsUpTo(_, _)
SeqsUpTo(S, n) ==
    IF n = 0 THEN {<<>>}
    ELSE LET shorter == SeqsUpTo(S, n - 1)
         IN  shorter \cup {Append(q, x) : q \in shorter, x \in S}

ErrorResponse == [status |-> "error", matches |-> <<>>]
OkResponse(matches) == [status |-> "ok", matches |-> matches]

\* every response of the extractor's own specification
Responses ==
    {ErrorResponse} \cup {OkResponse(m) : m \in SeqsUpTo(MatchPool, MaxMatches)}

\* the responses of the whole-program specification: a transport error, a body
\* with no match, one with an implausible match only, and plausible bodies
RunResponses ==
    {ErrorResponse, OkResponse(<<>>), OkResponse(<<<<7, 0, 1>>>>),
     OkResponse(<<<<6, 0, 0>>>>), OkResponse(<<<<6, 6, 4>>, <<5, 9, 9>>>>)}

\* The history left by n earlier runs that each resolved the fallback count
\* under the default policy (NOTIFY_STARTUP=false, QUIET_MODE=true).
\* (n <= HistoryLimit, so none of those runs truncated.)
PriorHistory(n) ==
    [k \in 1..n |->
        IF k = 1
        THEN NewRecord(k, FallbackCount, None, "startup_disabled")
        ELSE NewRecord(k, FallbackCount, FallbackCount, "no_change_quiet")]

ListFile(data) == [kind |-> "list", data |-> data]

\* review_history.json before the first modelled invocation
InitialFiles ==
    {[kind |-> "missing", data |-> <<>>],
     [kind |-> "corrupt", data |-> <<>>],       \* not JSON
     [kind |-> "dict_empty", data |-> <<>>],    \* the JSON value {}
     [kind |-> "dict", data |-> <<>>],          \* a non-empty JSON object
     ListFile(PriorHistory(HistoryLimit))}

(***************************************************************************)
(* Initial states                                                          *)
(***************************************************************************)
\* no process is running: the fields of the monitor do not exist
NoProcess ==
    /\ test_mode = FALSE /\ notify_on_startup = FALSE
    /\ notify_on_no_change = FALSE /\ quiet_mode = FALSE
    /\ min_change_threshold = 0
    /\ recipient_email = FALSE /\ gmail_address = FALSE /\ gmail_password = FALSE
    /\ attempt = 0 /\ fetches = [i \in 1..NumSources |-> 0]
    /\ response = NoResponse /\ grc_raised = FALSE
    /\ first_plausible = NoSource /\ all_errors = TRUE
    /\ current_count = None /\ history = EmptyList
    /\ last_count = None /\ should_notify = FALSE /\ notification_reason = ""
    /\ new_record = NoRecord /\ send_calls = 0 /\ success = FALSE
    /\ fell_back = FALSE /\ loaded_from = "none"
    /\ send_result = "none" /\ saved = "none"

Init ==
    /\ history_file \in InitialFiles
    /\ pc = "off" /\ runs = 0 /\ exit_code = None
    /\ clock = Len(history_file.data)
    /\ epoch = [n |-> Len(history_file.data),
                second |-> IF Len(history_file.data) >= 2 THEN 2 ELSE 0,
                total |-> Len(history_file.data)]
    /\ time_lookups = 0
    /\ NoProcess

(***************************************************************************)
(* main() and __init__                                                     *)
(***************************************************************************)
\* monitor = BundangCloudMonitor(): the fields are read from the environment
\* env: the policy values and which of the three credentials are non-empty
Construct(env) ==
    /\ pc = "off" /\ runs < MaxRuns
    /\ runs' = runs + 1
    /\ min_change_threshold' = env.MIN_CHANGE_THRESHOLD
    /\ notify_on_no_change' = env.NOTIFY_NO_CHANGE
    /\ notify_on_startup' = env.NOTIFY_STARTUP
    /\ quiet_mode' = env.QUIET_MODE
    /\ recipient_email' = env.RECIPIENT_EMAIL
    /\ gmail_address' = env.GMAIL_ADDRESS
    /\ gmail_password' = env.GMAIL_PASSWORD
    /\ test_mode' = env.TEST_MODE
    /\ exit_code' = None
    \* main: current_time = monitor.get_current_time()
    /\ time_lookups' = time_lookups + 1
    /\ pc' = "run_monitoring"
    /\ UNCHANGED <<history_file, clock, extract_vars, current_count, history,
                   decide_vars, send_calls, success, observer_vars, epoch>>

\* validate_settings(): all([recipient_email, gmail_address, gmail_password])
validate_settings == recipient_email /\ gmail_address /\ gmail_password

\* run_monitoring: current_time = self.get_current_time(); validate_settings()
ValidateSettings ==
    /\ pc = "run_monitoring"
    /\ clock' = clock + 1
    /\ time_lookups' = time_lookups + 1
    /\ IF validate_settings
       THEN pc' = "get_review_count" /\ UNCHANGED success
       ELSE pc' = "returned" /\ success' = FALSE
    /\ UNCHANGED <<history_file, policy_vars, runs, extract_vars,
                   current_count, history, decide_vars, send_calls,
                   exit_code, observer_vars, epoch>>


(***************************************************************************)
(* get_review_count                                                        *)
(***************************************************************************)
\* the values in the plausible range among the matches of one response
\* (an observation of the input, independent of the extractor's own filter)
PlausibleRange == 600..700
PlausibleValues(resp) ==
    {v \in {DigitsToInt(resp.matches[i]) : i \in 1..Len(resp.matches)} :
        v \in PlausibleRange}

\* get_review_count ends with outcome o: it returns o.value to run_monitoring,
\* or (o.raised) an exception reaches run_monitoring's own handler
GrcEnd(o) ==
    IF o.raised
    THEN /\ grc_raised' = TRUE /\ current_count' = None
         /\ pc' = "returned" /\ success' = FALSE
    ELSE /\ grc_raised' = FALSE /\ current_count' = o.value
         /\ pc' = "counted" /\ UNCHANGED success

\* except Exception as e: current_time = self.get_current_time() in the
\* handler of run_monitoring, reached when o is raised
HandlerLookups(o) == IF o.raised THEN 1 ELSE 0

\* headers, current_time, target_urls: the statements before the loop
GetReviewCountEnter ==
    /\ pc = "get_review_count"
    /\ pc' = "fetch" /\ attempt' = 1
    /\ time_lookups' = time_lookups + 1
    /\ UNCHANGED <<history_file, policy_vars, runs, clock, fetches, response,
                   grc_raised, first_plausible, all_errors, current_count,
                   history, decide_vars, send_calls, success, exit_code,
                   observer_vars, epoch>>

\* an exception in the statements before the loop: the outer handler
\* (raised before or after current_time = self.get_current_time())
GetReviewCountExcept ==
    /\ pc = "get_review_count"
    /\ GrcEnd(OuterExcept)
    /\ fell_back' = ~OuterExcept.raised
    /\ \E looked \in 0..1 :
          time_lookups' = time_lookups + looked + HandlerLookups(OuterExcept)
    /\ UNCHANGED <<history_file, policy_vars, runs, clock, attempt, fetches,
                   response, first_plausible, all_errors, history,
                   decide_vars, send_calls, exit_code, loaded_from,
                   send_result, saved, epoch>>

\* one iteration of `for attempt, (url, req_headers, version) in ...`
FetchSource(resp) ==
    /\ pc = "fetch" /\ attempt \in 1..NumSources
    /\ fetches' = [fetches EXCEPT ![attempt] = @ + 1]
    /\ response' = resp
    /\ first_plausible' =
          IF first_plausible = NoSource /\ PlausibleValues(resp) # {}
          THEN [source |-> attempt, matches |-> resp.matches]
          ELSE first_plausible
    /\ all_errors' = (all_errors /\ resp.status = "error")
    /\ LET step == LoopBody(resp)
       IN  CASE step.kind = "return" ->
                   /\ GrcEnd([raised |-> FALSE, value |-> step.value])
                   /\ UNCHANGED <<attempt, fell_back, time_lookups>>
             [] step.kind = "continue" ->
                   /\ attempt' = NextAttempt(attempt)
                   /\ UNCHANGED <<pc, current_count, grc_raised, success,
                                  fell_back, time_lookups>>
             [] OTHER ->
                   /\ GrcEnd(OuterExcept)
                   /\ fell_back' = ~OuterExcept.raised
                   /\ time_lookups' =
                         time_lookups + HandlerLookups(OuterExcept)
                   /\ UNCHANGED attempt
    /\ UNCHANGED <<history_file, policy_vars, runs, clock, history,
                   decide_vars, send_calls, exit_code, loaded_from,
                   send_result, saved, epoch>>

\* the loop is exhausted: "모든 시도 실패, 기본값 663 사용"
AllSourcesFailed ==
    /\ pc = "fetch" /\ attempt > NumSources
    /\ GrcEnd([raised |-> FALSE, value |-> AllFailedValue])
    /\ fell_back' = TRUE
    /\ UNCHANGED <<history_file, policy_vars, runs, clock, attempt, fetches,
                   response, first_plausible, all_errors, history,
                   decide_vars, send_calls, exit_code, time_lookups,
                   loaded_from, send_result, saved, epoch>>

(***************************************************************************)
(* run_monitoring after get_review_count                                   *)
(***************************************************************************)
\* the locals of get_review_count are gone once it has returned
ExtractLocalsGone ==
    /\ attempt' = 0 /\ fetches' = [i \in 1..NumSources |-> 0]
    /\ response' = NoResponse /\ first_plausible' = NoSource
    /\ all_errors' = TRUE
    /\ UNCHANGED grc_raised

\* history = [] / json.load; last_count = history[-1].get('review_count')
LoadHistory ==
    /\ pc = "counted"
    /\ ExtractLocalsGone
    /\ loaded_from' = history_file.kind
    /\ LET loaded == LoadedHistory(history_file)
       IN  /\ history' = loaded
           /\ IF loaded.kind = "dict"
              THEN \* history[-1] on a non-empty dict: KeyError, caught below
                   /\ pc' = "returned" /\ success' = FALSE
                   /\ time_lookups' = time_lookups + 1
                   /\ UNCHANGED last_count
              ELSE /\ last_count' = IF loaded.kind = "list" /\ loaded.data # <<>>
                                    THEN LastCount(loaded.data)
                                    ELSE None
                   /\ pc' = "decide" /\ UNCHANGED <<success, time_lookups>>
    /\ UNCHANGED <<history_file, policy_vars, runs, clock, current_count,
                   should_notify, notification_reason, new_record,
                   send_calls, exit_code, fell_back, send_result, saved,
                   epoch>>

\* should_notify, notification_reason = self.should_send_notification(...)
\* and new_record = {...}
Decide ==
    /\ pc = "decide"
    /\ LET d == should_send_notification(last_count, current_count)
       IN  /\ should_notify' = d.notify
           /\ notification_reason' = d.reason
           /\ new_record' = NewRecord(clock, current_count, last_count, d.reason)
    /\ pc' = "notify"
    /\ UNCHANGED <<history_file, policy_vars, runs, clock, extract_vars,
                   current_count, history, last_count, send_calls, success,
                   exit_code, time_lookups, observer_vars, epoch>>

\* every attempted send is recorded as sent
NotificationSent_Attempted(sent) == sent \/ ~sent

\* new_record["notification_sent"] = success
NotificationSent(sent) == sent

\* if should_notify: success = self.send_email_notification(...)
SendEmail(sent) ==
    /\ pc = "notify" /\ should_notify
    /\ send_calls' = send_calls + 1
    \* send_email_notification: current_time = self.get_current_time()
    /\ time_lookups' = time_lookups + 1
    /\ send_result' = IF sent THEN "ok" ELSE "failed"
    /\ new_record' = [new_record EXCEPT
                          !.notification_sent = NotificationSent(sent)]
    /\ pc' = "save"
    /\ UNCHANGED <<history_file, policy_vars, runs, clock, extract_vars,
                   current_count, history, last_count, should_notify,
                   notification_reason, success, exit_code, fell_back,
                   loaded_from, saved, epoch>>

\* else: "알림 발송 안함"
SkipNotification ==
    /\ pc = "notify" /\ ~should_notify
    /\ pc' = "save"
    /\ UNCHANGED <<history_file, policy_vars, runs, clock, extract_vars,
                   current_count, history, decide_vars, send_calls, success,
                   exit_code, time_lookups, observer_vars, epoch>>

\* history.append(new_record); history = history[-200:]; json.dump(...)
\* written: "ok", "open_error" (open raises, the file is untouched) or
\* "write_error" (the file was truncated by open and the dump failed)
SaveHistory(written) ==
    /\ pc = "save"
    /\ pc' = "returned"
    /\ IF history.kind # "list"
       THEN \* {}.append: AttributeError, caught by the handler of the run
            /\ success' = FALSE /\ saved' = "append_error"
            /\ time_lookups' = time_lookups + 1
            /\ UNCHANGED <<history, history_file, epoch>>
       ELSE /\ history' = ListFile(AppendRecord(history.data, new_record))
            /\ success' = (written = "ok") /\ saved' = written
            /\ time_lookups' = time_lookups + (IF written = "ok" THEN 0 ELSE 1)
            /\ history_file' =
                  CASE written = "ok" -> history'
                    [] written = "open_error" -> history_file
                    [] OTHER -> [kind |-> "corrupt", data |-> <<>>]
            /\ epoch' =
                  IF written # "ok" THEN epoch
                  ELSE IF history.data = <<>>
                  THEN [n |-> 1, second |-> 0, total |-> epoch.total + 1]
                  ELSE [n |-> epoch.n + 1,
                        second |-> IF epoch.n = 1 THEN new_record.timestamp
                                   ELSE epoch.second,
                        total |-> epoch.total + 1]
    /\ UNCHANGED <<policy_vars, runs, clock, extract_vars, current_count,
                   decide_vars, send_calls, exit_code, fell_back,
                   loaded_from, send_result>>

\* main: exit(1) unless run_monitoring returned True; the process ends
MainExit ==
    /\ pc = "returned"
    /\ exit_code' = IF success THEN 0 ELSE 1
    /\ pc' = "off"
    /\ test_mode' = FALSE /\ notify_on_startup' = FALSE
    /\ notify_on_no_change' = FALSE /\ quiet_mode' = FALSE
    /\ min_change_threshold' = 0
    /\ recipient_email' = FALSE /\ gmail_address' = FALSE
    /\ gmail_password' = FALSE
    /\ attempt' = 0 /\ fetches' = [i \in 1..NumSources |-> 0]
    /\ response' = NoResponse /\ grc_raised' = FALSE
    /\ first_plausible' = NoSource /\ all_errors' = TRUE
    /\ current_count' = None /\ history' = EmptyList
    /\ last_count' = None /\ should_notify' = FALSE
    /\ notification_reason' = "" /\ new_record' = NoRecord
    /\ send_calls' = 0 /\ success' = FALSE
    /\ time_lookups' = 0
    /\ fell_back' = FALSE /\ loaded_from' = "none"
    /\ send_result' = "none" /\ saved' = "none"
    /\ UNCHANGED <<history_file, runs, clock, epoch>>

(***************************************************************************)
(* Specifications                                                          *)
(***************************************************************************)
Outcomes == {"ok", "open_error", "write_error"}

\* the whole program, invoked MaxRuns times
Next ==
    \/ \E env \in RunEnvs : Construct(env)
    \/ ValidateSettings
    \/ GetReviewCountEnter
    \/ GetReviewCountExcept
    \/ \E resp \in RunResponses : FetchSource(resp)
    \/ AllSourcesFailed
    \/ LoadHistory
    \/ Decide
    \/ \E sent \in BOOLEAN : SendEmail(sent)
    \/ SkipNotification
    \/ \E written \in Outcomes : SaveHistory(written)
    \/ MainExit

Spec == Init /\ [][Next]_vars

\* get_review_count on its own, on every sequence of responses
InitExtract ==
    /\ history_file = [kind |-> "missing", data |-> <<>>]
    /\ pc = "get_review_count" /\ runs = 1 /\ exit_code = None
    /\ clock = 1 /\ epoch = [n |-> 0, second |-> 0, total |-> 0]
    /\ time_lookups = 2
    /\ test_mode = FALSE /\ notify_on_startup = FALSE
    /\ notify_on_no_change = FALSE /\ quiet_mode = TRUE
    /\ min_change_threshold = 1
    /\ recipient_email = TRUE /\ gmail_address = TRUE /\ gmail_password = TRUE
    /\ attempt = 0 /\ fetches = [i \in 1..NumSources |-> 0]
    /\ response = NoResponse /\ grc_raised = FALSE
    /\ first_plausible = NoSource /\ all_errors = TRUE
    /\ current_count = None /\ history = EmptyList
    /\ last_count = None /\ should_notify = FALSE /\ notification_reason = ""
    /\ new_record = NoRecord /\ send_calls = 0 /\ success = FALSE
    /\ fell_back = FALSE /\ loaded_from = "none"
    /\ send_result = "none" /\ saved = "none"

NextExtract ==
    \/ GetReviewCountEnter
    \/ GetReviewCountExcept
    \/ \E resp \in Responses : FetchSource(resp)
    \/ AllSourcesFailed

SpecExtract == InitExtract /\ [][NextExtract]_vars

\* should_send_notification and the record on their own, on every policy and
\* every pair of counts
Counts == 0..MaxCount

InitDecide ==
    /\ history_file = [kind |-> "missing", data |-> <<>>]
    /\ pc = "decide" /\ runs = 1 /\ exit_code = None
    /\ clock = 1 /\ epoch = [n |-> 0, second |-> 0, total |-> 0]
    /\ time_lookups = 3
    /\ test_mode \in BOOLEAN /\ notify_on_startup \in BOOLEAN
    /\ notify_on_no_change \in BOOLEAN /\ quiet_mode \in BOOLEAN
    /\ min_change_threshold \in Thresholds
    /\ recipient_email = TRUE /\ gmail_address = TRUE /\ gmail_password = TRUE
    /\ attempt = 0 /\ fetches = [i \in 1..NumSources |-> 0]
    /\ response = NoResponse /\ grc_raised = FALSE
    /\ first_plausible = NoSource /\ all_errors = TRUE
    /\ current_count \in Counts /\ history = EmptyList
    /\ last_count \in Counts \cup {None}
    /\ should_notify = FALSE /\ notification_reason = ""
    /\ new_record = NoRecord /\ send_calls = 0 /\ success = FALSE
    /\ fell_back = FALSE /\ loaded_from = "none"
    /\ send_result = "none" /\ saved = "none"

NextDecide == Decide

SpecDecide == InitDecide /\ [][NextDecide]_vars


(***************************************************************************)
(* Properties of should_send_notification (checked under SpecDecide)       *)
(***************************************************************************)
\* the decision has been taken on (last_count, current_count)
Decided == pc = "notify"

\* the decision, as the pair the function returns
Decision == <<should_notify, notification_reason>>

\* |a - b|
Distance(a, b) == IF a >= b THEN a - b ELSE b - a

\* C1: in test mode the decision is (true, "test") for every last_count
\* (absent or not), every current_count and every other policy field.
C1_TestModeOverrides ==
    (Decided /\ test_mode) => Decision = <<TRUE, "test">>

\* C1 witness: test mode decides "test" where every other rule would be silent
\* (unchanged count, quiet mode on, startup and no-change notifications off).
C1_Witness ==
    /\ Decided /\ test_mode
    /\ last_count # None /\ last_count = current_count
    /\ quiet_mode /\ ~notify_on_no_change /\ ~notify_on_startup
    /\ Decision = <<TRUE, "test">>

\* C2: test mode off and last_count absent: (true, "start") iff
\* notify_on_startup, otherwise (false, "startup_disabled"), whatever
\* current_count, quiet_mode, notify_on_no_change and the threshold are.
C2_FirstRunDecision ==
    (Decided /\ ~test_mode /\ last_count = None) =>
        Decision = IF notify_on_startup THEN <<TRUE, "start">>
                   ELSE <<FALSE, "startup_disabled">>

\* C2 witness: a first run that notifies "start" although quiet mode is on.
C2_Witness ==
    /\ Decided /\ ~test_mode /\ last_count = None
    /\ notify_on_startup /\ quiet_mode /\ ~notify_on_no_change
    /\ min_change_threshold = MaxThreshold
    /\ Decision = <<TRUE, "start">>

\* C3: test mode off, last_count present and different from current_count:
\* (true, "significant_change") iff |current_count - last_count| >=
\* min_change_threshold, otherwise (false, "below_threshold"); the direction of
\* the change, quiet_mode and notify_on_no_change play no part.
C3_ChangeDecision ==
    (Decided /\ ~test_mode /\ last_count # None /\ last_count # current_count) =>
        Decision = IF Distance(current_count, last_count) >= min_change_threshold
                   THEN <<TRUE, "significant_change">>
                   ELSE <<FALSE, "below_threshold">>

\* C3 witness: a decrease at the threshold is notified, with quiet mode on.
C3_Witness ==
    /\ Decided /\ ~test_mode /\ last_count # None
    /\ current_count < last_count
    /\ last_count - current_count = min_change_threshold
    /\ quiet_mode
    /\ Decision = <<TRUE, "significant_change">>

\* C4: test mode off, last_count present and equal to current_count:
\* (true, "no_change") iff notify_on_no_change and not quiet_mode, otherwise
\* (false, "no_change_quiet"), for every threshold, 0 included.
C4_NoChangeDecision ==
    (Decided /\ ~test_mode /\ last_count # None /\ last_count = current_count) =>
        Decision = IF notify_on_no_change /\ ~quiet_mode
                   THEN <<TRUE, "no_change">>
                   ELSE <<FALSE, "no_change_quiet">>

\* C4 witness: an unchanged count under threshold 0 is "no_change_quiet".
C4_Witness ==
    /\ Decided /\ ~test_mode /\ last_count # None
    /\ last_count = current_count /\ min_change_threshold = 0
    /\ notify_on_no_change /\ quiet_mode
    /\ Decision = <<FALSE, "no_change_quiet">>


(***************************************************************************)
(* Properties of get_review_count (checked under SpecExtract)              *)
(***************************************************************************)
\* get_review_count has returned a value to its caller
Counted == pc = "counted"

RECURSIVE FetchesUpTo(_)
FetchesUpTo(n) == IF n = 0 THEN 0 ELSE FetchesUpTo(n - 1) + fetches[n]

\* requests.get calls on the configured sources in this call
TotalFetches == FetchesUpTo(NumSources)

\* exactly the sources 1..n have been fetched, once each
FetchedExactly(n) ==
    \A i \in 1..NumSources : fetches[i] = IF i <= n THEN 1 ELSE 0

\* C5: whatever the sources answer (transport error, empty body, no match,
\* implausible matches only, plausible matches), get_review_count never
\* raises to its caller, fetches each configured source at most once, always
\* has a next step until it returns (and at most NumSources fetches are
\* ever made, so it terminates), and what it returns is an integer.
C5_ExtractorTotal ==
    /\ ~grc_raised
    /\ \A i \in 1..NumSources : fetches[i] <= 1
    /\ (pc = "fetch") =>
          (attempt \in 1..(NumSources + 1) /\ TotalFetches = attempt - 1)
    /\ (pc \in {"get_review_count", "fetch"}) => ENABLED NextExtract
    /\ Counted => current_count \in Nat

\* C5 witness: the call returned after all seven sources were fetched once
\* and the last one had an empty body.
C5_Witness ==
    /\ Counted /\ FetchedExactly(NumSources)
    /\ response = OkResponse(<<>>)
    /\ current_count \in Nat

\* C6: the value returned is the maximum of the in-range candidates of the
\* first source, in priority order, that has an in-range candidate; exactly
\* the sources up to that one were fetched, and extraction never goes on past
\* a source with an in-range candidate.
C6_FirstPlausibleSourceWins ==
    /\ (pc = "fetch") => first_plausible = NoSource
    /\ (Counted /\ first_plausible # NoSource) =>
          LET plausible == PlausibleValues(first_plausible)
          IN  /\ current_count \in plausible
              /\ \A v \in plausible : v <= current_count
              /\ FetchedExactly(first_plausible.source)

\* C6 witness: the third source is the first plausible one, it has two
\* in-range candidates with the smaller one first, and the larger is returned.
C6_Witness ==
    /\ Counted
    /\ first_plausible = [source |-> 3,
                          matches |-> <<<<6, 0, 0>>, <<6, 6, 4>>>>]
    /\ current_count = 664
    /\ FetchedExactly(3)

\* C7: a candidate outside [600, 700] is never the value resolved from a
\* source, and a source with matches but none in range does not end the
\* extraction: the next source is tried, or, after the last source, the
\* fallback is returned.
C7_RangeFiltering ==
    /\ Counted => current_count \in PlausibleRange
    /\ (response.status = "ok" /\ PlausibleValues(response) = {}) =>
          \/ pc = "fetch" /\ attempt = TotalFetches + 1
          \/ Counted /\ FetchedExactly(NumSources)
                     /\ first_plausible = NoSource

\* C7 witness: the winning source matched 701 and 600; 600 is returned
\* although 701 is the largest raw match.
C7_Witness ==
    /\ Counted
    /\ response = OkResponse(<<<<7, 0, 1>>, <<6, 0, 0>>>>)
    /\ current_count = 600

\* C8: a transport error on a source does not end the extraction (the next
\* source is tried, so a call that ends after an error has fetched all seven
\* sources), and when no fetched source had an in-range candidate the value
\* returned is the fallback 663.
C8_FallbackAfterErrors ==
    /\ (response.status = "error") =>
          \/ pc = "fetch" /\ attempt = TotalFetches + 1
          \/ Counted /\ FetchedExactly(NumSources)
    /\ (Counted /\ first_plausible = NoSource) => current_count = 663

\* C8 witness: all seven sources raised a transport error and 663 came back.
C8_Witness ==
    /\ Counted /\ all_errors /\ FetchedExactly(NumSources)
    /\ response = ErrorResponse
    /\ current_count = 663


(***************************************************************************)
(* Properties of the persisted history (checked under Spec)                *)
(***************************************************************************)
\* review_history.json holds a list of observations
HistoryStored == history_file.kind = "list"

\* the last process ended with a completed run
RunCompleted == pc = "off" /\ exit_code = 0

\* C9: the persisted history never has more than HistoryLimit = 200
\* observations, they are in chronological order with the newest last (after
\* a completed run the last one is that run's), and counting completed runs
\* from an empty history (epoch.n): up to 200 runs the length is the number of
\* runs, and after 201 runs the length is 200 and the earliest surviving
\* observation is the one the 2nd run wrote.
C9_HistoryBound ==
    HistoryStored =>
        LET data == history_file.data
        IN  /\ Len(data) <= HistoryLimit
            /\ \A i \in 1..(Len(data) - 1) :
                  data[i].timestamp < data[i + 1].timestamp
            /\ RunCompleted => data[Len(data)].timestamp = clock
            /\ (epoch.n <= HistoryLimit) => Len(data) = epoch.n
            /\ (epoch.n = HistoryLimit + 1) =>
                  /\ Len(data) = HistoryLimit
                  /\ epoch.second # 0
                  /\ data[1].timestamp = epoch.second

\* C9 witness: the 201st completed run since the history was empty has just
\* saved; 200 observations are stored and the oldest is the 2nd run's.
C9_Witness ==
    /\ RunCompleted /\ HistoryStored
    /\ epoch.n = HistoryLimit + 1
    /\ Len(history_file.data) = HistoryLimit
    /\ history_file.data[1].timestamp = epoch.second
    /\ history_file.data[HistoryLimit].timestamp = clock

\* C10: any two consecutive observations A, B of the persisted history
\* satisfy B.previous_count = A.review_count.
C10_HistoryChain ==
    HistoryStored =>
        \A i \in 1..(Len(history_file.data) - 1) :
            history_file.data[i + 1].previous_count =
                history_file.data[i].review_count

\* C10 witness: a history truncated twice whose last two observations come
\* from a run that observed 600 and failed to send its "significant_change"
\* notification, and a run that resolved the fallback 663.
C10_Witness ==
    /\ RunCompleted /\ HistoryStored
    /\ epoch.n = HistoryLimit + 2
    /\ LET data == history_file.data
           A == data[Len(data) - 1]
           B == data[Len(data)]
       IN  /\ Len(data) = HistoryLimit
           /\ A.review_count = 600
           /\ A.notification_reason = "significant_change"
           /\ ~A.notification_sent
           /\ B.review_count = 663 /\ B.previous_count = 600


(***************************************************************************)
(* Persistence and the exit contract of a run                              *)
(***************************************************************************)
\* the run is back in main with the result of run_monitoring in `success`
Returned == pc = "returned"

\* open() or json.dump() of the save raised (an I/O failure of the save)
WriteFailed == saved \in {"open_error", "write_error"}

\* the kinds of persisted file that are not a JSON list
BadFiles == {"missing", "corrupt", "dict_empty", "dict"}

\* C11: in every run that passes validate_settings, and whose write is not
\* failed by the file system, exactly one new record (the one of this run)
\* is appended and saved whatever the decision and the outcome of the send;
\* after a failed send its notification_sent is false and the run returns
\* True
C11_AlwaysPersisted ==
    (Returned /\ validate_settings /\ ~WriteFailed) =>
        /\ success /\ saved = "ok"
        /\ new_record # NoRecord
        /\ history_file.kind = "list" /\ history_file.data # <<>>
        /\ history_file.data[Len(history_file.data)] = new_record
        /\ new_record.timestamp = clock
        /\ epoch.total >= 1
        /\ (send_result = "failed" => ~new_record.notification_sent)

\* C12: when a credential is missing the run returns False before any fetch
\* and before any other effect: no network request at all (neither to a
\* review source nor to the time service), no send, no load and no save
C12_FailFast ==
    (Returned /\ ~validate_settings) =>
        /\ ~success
        /\ TotalFetches = 0 /\ time_lookups = 0
        /\ send_calls = 0 /\ new_record = NoRecord
        /\ loaded_from = "none" /\ saved = "none"

\* C13: whenever the persisted history is missing, unreadable, not JSON or
\* not a JSON list, the run (its write not failed by the file system)
\* decides as a first run, saves the history made of its one new record and
\* returns True
C13_LoadFailureRecovered ==
    (Returned /\ loaded_from \in BadFiles /\ ~WriteFailed) =>
        /\ success
        /\ last_count = None
        /\ notification_reason \in {"test", "start", "startup_disabled"}
        /\ new_record # NoRecord
        /\ history_file = ListFile(<<new_record>>)

\* C14: run_monitoring returns False, and main exits with status 1, exactly
\* when validate_settings failed or the write of the history failed; a run
\* whose fetches all failed, whose history could not be loaded or whose send
\* failed returns True and main exits with status 0
C14_ExitContract ==
    [][Returned =>
         /\ ~success <=> (~validate_settings \/ WriteFailed)
         /\ exit_code' = IF ~validate_settings \/ WriteFailed
                          THEN 1 ELSE 0]_vars

(***************************************************************************)
(* The fields of a record                                                  *)
(***************************************************************************)
\* new_record holds the record of this run and the loaded history is still
\* in `history`
RecordBuilt == pc \in {"notify", "save"}

\* the stored history as an invocation finds it and as it leaves it: the
\* file changes in SaveHistory only, which leads to "returned" and "off"
Persisted == HistoryStored /\ pc \in {"off", "returned"}

\* the run loaded no record: the file was no list, or an empty one
LoadedEmpty == history.kind # "list" \/ history.data = <<>>

\* C15 as stated: a stored record has previous_count null only if it is the
\* first record ever saved (it is the oldest stored one and as many records
\* are stored as were ever saved)
C15_AbsentOnlyOnFirstEver ==
    HistoryStored =>
        \A i \in 1..Len(history_file.data) :
            history_file.data[i].previous_count = None =>
                i = 1 /\ epoch.total = Len(history_file.data)

\* C15, amended: the record of a run has previous_count null exactly when
\* the run loaded no record (first run ever, or the stored history was lost:
\* file missing or not parseable, as after a failed write); in a stored
\* history only the oldest record can have it null, and then the history
\* was started by that record; every other record carries an integer
C15_AbsentOnlyOnEmptyHistory ==
    /\ RecordBuilt =>
          /\ (new_record.previous_count = None) <=> LoadedEmpty
          /\ new_record.previous_count # None =>
                new_record.previous_count \in Nat
    /\ Persisted =>
          /\ \A i \in 2..Len(history_file.data) :
                history_file.data[i].previous_count \in Nat
          /\ (history_file.data # <<>>
                /\ history_file.data[1].previous_count = None) =>
                   epoch.n = Len(history_file.data)

\* a history restarted after a loss: its only record has previous_count
\* null although records were saved before it
C15_Witness ==
    /\ HistoryStored /\ Len(history_file.data) = 1
    /\ history_file.data[1].previous_count = None
    /\ epoch.total > 1

\* C16: the record has change = review_count - previous_count whenever
\* previous_count is present, for every integer previous_count, and 0 when
\* it is null, in test mode as well
C16_ChangeIsDifference ==
    Decided =>
        /\ new_record.review_count = current_count
        /\ new_record.previous_count = last_count
        /\ new_record.change =
              IF new_record.previous_count = None THEN 0
              ELSE new_record.review_count - new_record.previous_count


(***************************************************************************)
(* Notification, retry and the fallback count                              *)
(***************************************************************************)
\* the reasons of a decision not to notify
SilentReasons == {"startup_disabled", "no_change_quiet", "below_threshold"}

\* C17: notification_sent is true only if send_email_notification was called
\* and returned True, and it is called exactly when should_notify is true;
\* so every record whose reason is startup_disabled, no_change_quiet or
\* below_threshold has notification_sent false
C17_SentOnlyAfterSuccessfulSend ==
    /\ Decided => send_calls = 0 /\ ~new_record.notification_sent
    /\ (pc \in {"save", "returned"} /\ new_record # NoRecord) =>
          /\ send_calls <= 1
          /\ (send_calls = 1) <=> should_notify
          /\ (send_result # "none") <=> (send_calls = 1)
          /\ new_record.notification_sent <=> (send_result = "ok")
          /\ new_record.notification_reason \in SilentReasons =>
                ~new_record.notification_sent
    /\ Persisted =>
          \A i \in 1..Len(history_file.data) :
              history_file.data[i].notification_reason \in SilentReasons =>
                  ~history_file.data[i].notification_sent

\* a saved record of a send that succeeded
C17_Witness ==
    /\ Returned /\ saved = "ok" /\ send_result = "ok"
    /\ history_file.data[Len(history_file.data)] = new_record
    /\ new_record.notification_sent

\* the last record of the history this run loaded
LastLoaded == history.data[Len(history.data)]

\* this run follows a stored "significant_change" whose send failed and has
\* observed the same count again
FailedSendBefore ==
    /\ Decided /\ ~LoadedEmpty
    /\ LastLoaded.notification_reason = "significant_change"
    /\ ~LastLoaded.notification_sent
    /\ current_count = LastLoaded.review_count

\* C18 as stated: after a "significant_change" whose send failed, a following
\* run that observes the same count decides no_change or no_change_quiet
C18_NoRetry ==
    FailedSendBefore =>
        notification_reason \in {"no_change", "no_change_quiet"}

\* C18, amended: the decision uses the review_count of the last stored
\* record only; after a "significant_change" whose send failed, a following
\* run that observes the same count decides no_change or no_change_quiet
\* when test mode is off (and then sends only a "no_change" mail, under the
\* loud policy), and decides (true, "test") when test mode is on
C18_NoRetryUnlessTestMode ==
    /\ (Decided /\ ~LoadedEmpty) => last_count = LastLoaded.review_count
    /\ (FailedSendBefore /\ ~test_mode) =>
          /\ notification_reason \in {"no_change", "no_change_quiet"}
          /\ should_notify <=> (notify_on_no_change /\ ~quiet_mode)
    /\ (FailedSendBefore /\ test_mode) => Decision = <<TRUE, "test">>

\* the following run, test mode off, has decided not to notify
C18_Witness ==
    /\ FailedSendBefore /\ ~test_mode
    /\ Decision = <<FALSE, "no_change_quiet">>

\* C19: the 663 of the two `return 663` is recorded and compared like an
\* observed count: with test mode off and last_count present the run decides
\* significant_change, and calls the send, iff last_count # 663 and
\* |663 - last_count| >= min_change_threshold; once saved, 663 is the count
\* the next run loads as last_count
C19_FallbackIsObserved ==
    /\ fell_back => current_count = FallbackCount
    /\ (fell_back /\ RecordBuilt) =>
          /\ new_record.review_count = FallbackCount
          /\ new_record.previous_count = last_count
          /\ (~test_mode /\ last_count # None) =>
                /\ (notification_reason = "significant_change") <=>
                      /\ last_count # FallbackCount
                      /\ Distance(FallbackCount, last_count) >=
                            min_change_threshold
                /\ notification_reason = "significant_change" =>
                      should_notify
    /\ (fell_back /\ pc = "save") => ((send_calls = 1) <=> should_notify)
    /\ (fell_back /\ Returned /\ saved = "ok") =>
          LastCount(history_file.data) = FallbackCount

\* the fallback after a stored 600: a significant change, the send called
C19_Witness ==
    /\ fell_back /\ pc = "save" /\ ~test_mode
    /\ last_count = 600
    /\ notification_reason = "significant_change" /\ send_calls = 1

\* C20: every count returned by get_review_count, and so every review_count
\* of a record, lies in 600..700 (and is never 0), and every recorded change
\* is at most 100 in absolute value
C20_CountsInRange ==
    /\ current_count # None => current_count \in RangeLo..RangeHi
    /\ new_record # NoRecord =>
          /\ new_record.review_count \in RangeLo..RangeHi
          /\ Abs(new_record.change) <= RangeHi - RangeLo
    /\ Persisted =>
          \A i \in 1..Len(history_file.data) :
              /\ history_file.data[i].review_count \in RangeLo..RangeHi
              /\ history_file.data[i].review_count # 0
              /\ Abs(history_file.data[i].change) <= RangeHi - RangeLo

\* a stored record of the count 600 observed after the fallback 663
C20_Witness ==
    /\ HistoryStored /\ history_file.data # <<>>
    /\ LastCount(history_file.data) = RangeLo
    /\ history_file.data[Len(history_file.data)].change =
          RangeLo - FallbackCount

=============================================================================
